---- MODULE Spec2Model ----
(***************************************************************************)
(* Verification model of the zCloak SDK credential core: the commitment    *)
(* operation (calcRoothash), VerifiableCredentialBuilder and its setters,  *)
(* the presentation builder, proofVerify, and the wasm bridge (initWasm    *)
(* and the object heap).                                                   *)
(*                                                                         *)
(* Hashes, digests and signatures are symbolic: a hash is the record of    *)
(* what was hashed, a signature the record of who signed what.             *)
(***************************************************************************)
EXTENDS Integers, Sequences, FiniteSets, TLC

(***************************************************************************)
(* Bounds                                                                  *)
(***************************************************************************)
NumValues == 2
MaxDate == 2
MaxCalls == 3
MaxVCs == 2
MaxNonce == 2
MaxInits == 4
MaxHeapOps == 7

(***************************************************************************)
(* JavaScript values                                                       *)
(***************************************************************************)
\* `undefined` and `null` in a number-typed slot
Undefined == -1
Null == -2
\* `undefined` in a string-typed slot
UndefinedStr == "undefined"
\* the empty object `{}`
EmptyMap == [k \in {} |-> 0]

\* JavaScript truthiness of a number | null | undefined
TruthyNum(n) == n > 0
\* JavaScript truthiness of a string | undefined
TruthyStr(s) == s # UndefinedStr /\ s # ""

Keys == {"name", "age"}
Values == 1..NumValues
ClaimSets == UNION {[K -> Values] : K \in SUBSET Keys}
Dates == 1..MaxDate

DEFAULT_CONTEXT == "https://www.w3.org/2018/credentials/v1"
DEFAULT_VC_VERSION == "1"
\* version strings: '1', and others
Versions == {"0", "1", "2"}
HashTypes == {"Rescue", "Keccak256"}

(***************************************************************************)
(* rootHash.ts                                                             *)
(***************************************************************************)
rootHashFromMerkle(hashes, nonceMap) ==
  [hashes |-> hashes, nonceMap |-> nonceMap, rootHash |-> "0x"]

\* `input` is the claim set, `nonceMap` the optional third argument; the
\* body overwrites the argument with `{}` before it is read.
calcRoothash(input, type, nonceMap) ==
  LET nonceMap1 == EmptyMap
      r == rootHashFromMerkle(<<>>, nonceMap1)
  IN  [type |-> type, hashes |-> r.hashes, nonceMap |-> r.nonceMap,
       rootHash |-> r.rootHash]

(***************************************************************************)
(* Collaborators of the builder: the schema, the digest and the signer     *)
(***************************************************************************)
\* A CType: its `$id` and the claim keys its schema expects
CTypes ==
  { [id |-> "0xc1", fields |-> {"name", "age"}],
    [id |-> UndefinedStr, fields |-> {"age"}] }

Owners == {"did:zk:holder", UndefinedStr}
Issuers == {"did:zk:issuer"}

\* The claim sets a Raw is made of: each schema matched and mismatched, the
\* age of every value and the name, where there is one, of one value
RawContents ==
  {c \in ClaimSets :
     "age" \in DOMAIN c /\ ("name" \in DOMAIN c => c["name"] = 1)}

Raws ==
  { [contents |-> c, owner |-> o, ctype |-> t, hashType |-> "Rescue"] :
      c \in RawContents, o \in Owners, t \in CTypes }

\* Raw.checkSubject: the claim set has the shape the ctype's schema expects
checkSubject(raw) == DOMAIN raw.contents = raw.ctype.fields

\* calcDigest(version, payload, hashType): the hash of the payload in the
\* byte layout of the version; version '1' prefixes a literal tag, the
\* others do not.
calcDigest(version, payload, hashType) ==
  [digest |->
     [layout |-> IF version = "1" THEN "tagged" ELSE "plain",
      rootHash |-> payload.rootHash,
      holder |-> payload.holder,
      ctype |-> payload.ctype,
      issuanceDate |-> payload.issuanceDate,
      expirationDate |-> payload.expirationDate,
      hashType |-> hashType],
   type |-> hashType]

\* concat('CredentialVersionedDigest', version, digest)
signedVCMessage(digest, version) ==
  [tag |-> "CredentialVersionedDigest", version |-> version, digest |-> digest]

\* the digest itself as the signed message
plainMessage(digest) == [tag |-> "", version |-> "", digest |-> digest]

\* SignedMessage, but the digest itself is signed whatever the version
SignedMessage_AlwaysPlain(version, digest) == plainMessage(digest)

\* _signDigest: the message signed for a digest under a version
SignedMessage(version, digest) ==
  IF version = "1" THEN signedVCMessage(digest, version)
  ELSE plainMessage(digest)

\* did.getKeyUrl('assertionMethod')
getKeyUrl(did, purpose) == [did |-> did, purpose |-> purpose]

\* did.signWithKey(message, keyUrl)
signWithKey(did, message, keyUrl) ==
  [id |-> keyUrl,
   signature |-> [key |-> keyUrl, message |-> message],
   type |-> "EcdsaSecp256k1Signature2019"]

\* base58Encode(signature): the multibase string, prefix 'z' and the base58
\* digits of the bytes
base58Encode(signature) == [prefix |-> "z", digits |-> signature]

(***************************************************************************)
(* VerifiableCredentialBuilder                                             *)
(***************************************************************************)
VARIABLES
  builder,    \* the fields of the builder instance
  frames,     \* build calls suspended at `await this._signDigest(...)`
  calls,      \* history: one record per build call
  issued,     \* the credentials build has returned, by call
  signerLog,  \* history: the signWithKey invocations, by call
  nSet        \* calls made on the builder so far, setters and builds

bvars == <<builder, frames, calls, issued, signerLog, nSet>>

\* the commitment operation applied
VARIABLES
  hLog        \* history: the calcRoothash calls, with argument and result

hvars == <<hLog>>

\* the VerifiablePresentationBuilder instance
VARIABLES
  vcs,        \* the credentials added so far, as redacted
  types,      \* the disclosure mode of each
  addLog,     \* history: the addVC calls
  built       \* the presentation build returned last, with the calls before it

pvars == <<vcs, types, addLog, built>>

\* proofVerify applied
VARIABLES
  vLog        \* history: the proofVerify call made, with its result

vvars == <<vLog>>

\* the module state of the wasm bridge
VARIABLES
  wasm,       \* the exported `wasm` binding
  initCalls,  \* initWasm calls suspended at `await WebAssembly.instantiate`
  views,      \* cacheU8a, cachedBigUint64, cachedInt32: whose memory each views
  bindings,   \* history: the instances assigned to `wasm`, in order
  nInit,      \* initWasm calls made so far
  heap,       \* the object heap
  heapNext,   \* head of the heap's free list
  heapLog,    \* history: the heap calls made, with index and result
  live        \* indexes addHeapObject returned and no call released yet

wvars == <<wasm, initCalls, views, bindings, nInit, heap, heapNext, heapLog, live>>

vars == <<bvars, hvars, pvars, vvars, wvars>>

\* new VerifiableCredentialBuilder(raw)
NewBuilder(raw) ==
  [context |-> UndefinedStr, version |-> UndefinedStr,
   issuanceDate |-> Undefined, expirationDate |-> Undefined,
   raw |-> raw, digestHashType |-> UndefinedStr]

\* isRawCredential(rawCredential) and ctype.$id === rawCredential.ctype
isRawCredential(raw) ==
  TruthyStr(raw.owner) /\ TruthyStr(raw.ctype.id)

\* VerifiableCredentialBuilder.fromRawCredential; `now` is Date.now(),
\* `digestType` is rawCredential.hasher[1]
fromRawCredential(raw, now, digestType) ==
  [NewBuilder(raw) EXCEPT
     !.context = DEFAULT_CONTEXT,
     !.version = DEFAULT_VC_VERSION,
     !.issuanceDate = now,
     !.digestHashType = digestType]

setContext(b, context) == [b EXCEPT !.context = context]
setVersion(b, version) == [b EXCEPT !.version = version]
setIssuanceDate(b, timestamp) == [b EXCEPT !.issuanceDate = timestamp]
setExpirationDate(b, timestamp) == [b EXCEPT !.expirationDate = timestamp]
setRaw(b, rawIn) == [b EXCEPT !.raw = rawIn]
setDigestHashType(b, hashType) == [b EXCEPT !.digestHashType = hashType]

\* The condition of the `if` at the head of build
BuildGuard(b) ==
  /\ TruthyStr(b.context)
  /\ TruthyStr(b.version)
  /\ TruthyNum(b.issuanceDate)
  /\ TruthyStr(b.digestHashType)
  /\ b.expirationDate # Undefined

\* `x || undefined`
OrUndefined(n) == IF TruthyNum(n) THEN n ELSE Undefined

\* build up to the call of the signer: the commitment, the digest payload,
\* the digest and the message handed to signWithKey
BuildFrame(b, issuer, isPublic, call) ==
  LET rootHashResult ==
        IF isPublic
        THEN calcRoothash(b.raw.contents, b.raw.hashType, <<>>)
        ELSE calcRoothash(b.raw.contents, b.raw.hashType, <<EmptyMap>>)
      digestPayload ==
        [rootHash |-> rootHashResult.rootHash,
         expirationDate |-> OrUndefined(b.expirationDate),
         holder |-> b.raw.owner,
         ctype |-> b.raw.ctype.id,
         issuanceDate |-> b.issuanceDate]
      d == calcDigest(b.version, digestPayload, b.digestHashType)
      message == SignedMessage(b.version, d.digest)
  IN  [call |-> call, issuer |-> issuer, isPublic |-> isPublic,
       rootHashResult |-> rootHashResult,
       digest |-> d.digest, digestHashType |-> d.type,
       message |-> message,
       signDidUrl |-> getKeyUrl(issuer, "assertionMethod")]

\* _signDigest after the signer has answered
SignedProof(signed) ==
  [type |-> signed.type,
   created |-> "Date.now()",
   verificationMethod |-> signed.id,
   proofPurpose |-> "assertionMethod",
   proofValue |-> base58Encode(signed.signature)]

\* a claim set as credentialSubject
Subject(claims) == [kind |-> "claims", claims |-> claims, rootHash |-> ""]

\* AssembleVC, but the field hashes and the nonce map are added whatever
\* isPublic is
AssembleVC_AlwaysPrivate(b, frame, proof) ==
  [context |-> b.context,
   version |-> b.version,
   ctype |-> b.raw.ctype.id,
   issuanceDate |-> b.issuanceDate,
   credentialSubject |-> Subject(b.raw.contents),
   issuer |-> frame.issuer,
   holder |-> b.raw.owner,
   hasher |-> <<frame.rootHashResult.type, frame.digestHashType>>,
   digest |-> frame.digest,
   proof |-> <<proof>>,
   private |-> TRUE,
   credentialSubjectHashes |-> frame.rootHashResult.hashes,
   credentialSubjectNonceMap |-> frame.rootHashResult.nonceMap,
   expirationDate |-> OrUndefined(b.expirationDate)]

\* build after the await: the credential is assembled from the fields the
\* builder has now and from the frame's commitment, digest and proof
AssembleVC(b, frame, proof) ==
  [context |-> b.context,
   version |-> b.version,
   ctype |-> b.raw.ctype.id,
   issuanceDate |-> b.issuanceDate,
   credentialSubject |-> Subject(b.raw.contents),
   issuer |-> frame.issuer,
   holder |-> b.raw.owner,
   hasher |-> <<frame.rootHashResult.type, frame.digestHashType>>,
   digest |-> frame.digest,
   proof |-> <<proof>>,
   private |-> ~frame.isPublic,
   credentialSubjectHashes |->
     IF frame.isPublic THEN <<>> ELSE frame.rootHashResult.hashes,
   credentialSubjectNonceMap |->
     IF frame.isPublic THEN EmptyMap ELSE frame.rootHashResult.nonceMap,
   expirationDate |-> OrUndefined(b.expirationDate)]

\* The builder as constructed: by the constructor, or by fromRawCredential
\* from a raw credential that passes its assertions
BInit ==
  /\ builder \in
       {NewBuilder(r) : r \in Raws} \cup
       {fromRawCredential(r, now, "Keccak256") :
          r \in {x \in Raws : isRawCredential(x)}, now \in Dates}
  /\ frames = {}
  /\ calls = <<>>
  /\ issued = {}
  /\ signerLog = <<>>
  /\ nSet = 0

\* a setter call: the field is assigned, build calls in flight go on
SetContext ==
  /\ nSet < MaxCalls
  /\ builder' = setContext(builder, DEFAULT_CONTEXT)
  /\ nSet' = nSet + 1
  /\ UNCHANGED <<frames, calls, issued, signerLog, hvars, pvars, vvars, wvars>>

SetVersion ==
  \E v \in Versions :
    /\ nSet < MaxCalls
    /\ builder' = setVersion(builder, v)
    /\ nSet' = nSet + 1
    /\ UNCHANGED <<frames, calls, issued, signerLog, hvars, pvars, vvars, wvars>>

SetIssuanceDate ==
  \E t \in 0..MaxDate :
    /\ nSet < MaxCalls
    /\ builder' = setIssuanceDate(builder, t)
    /\ nSet' = nSet + 1
    /\ UNCHANGED <<frames, calls, issued, signerLog, hvars, pvars, vvars, wvars>>

SetExpirationDate ==
  \E t \in {Null} \cup Dates :
    /\ nSet < MaxCalls
    /\ builder' = setExpirationDate(builder, t)
    /\ nSet' = nSet + 1
    /\ UNCHANGED <<frames, calls, issued, signerLog, hvars, pvars, vvars, wvars>>

SetRaw ==
  \E r \in Raws :
    /\ nSet < MaxCalls
    /\ builder' = setRaw(builder, r)
    /\ nSet' = nSet + 1
    /\ UNCHANGED <<frames, calls, issued, signerLog, hvars, pvars, vvars, wvars>>

SetDigestHashType ==
  \E h \in HashTypes :
    /\ nSet < MaxCalls
    /\ builder' = setDigestHashType(builder, h)
    /\ nSet' = nSet + 1
    /\ UNCHANGED <<frames, calls, issued, signerLog, hvars, pvars, vvars, wvars>>

\* the error build throws on builder `b`, "" when it throws none
BuildError(b, issuer, isPublic) ==
  IF ~checkSubject(b.raw) THEN "Subject check failed"
  ELSE IF ~BuildGuard(b) THEN "Can not to build an VerifiableCredential"
  ELSE ""

\* history of a build call: the builder at the call (`pre`) and at the
\* return (`post`), the arguments, the outcome
CallRecord(issuer, isPublic, outcome) ==
  [pre |-> builder, post |-> builder, issuer |-> issuer,
   isPublic |-> isPublic, outcome |-> outcome,
   error |-> BuildError(builder, issuer, isPublic)]

\* build(issuer, isPublic) from its entry to the throw of a failed check
BuildThrow ==
  \E issuer \in Issuers, isPublic \in BOOLEAN :
    /\ nSet < MaxCalls
    /\ BuildError(builder, issuer, isPublic) # ""
    /\ calls' = Append(calls, CallRecord(issuer, isPublic, "threw"))
    /\ nSet' = nSet + 1
    /\ UNCHANGED <<builder, frames, issued, signerLog, hvars, pvars, vvars, wvars>>

\* build(issuer, isPublic) from its entry to the await of the signer
BuildCall ==
  \E issuer \in Issuers, isPublic \in BOOLEAN :
    /\ nSet < MaxCalls
    /\ BuildError(builder, issuer, isPublic) = ""
    /\ LET frame == BuildFrame(builder, issuer, isPublic, Len(calls) + 1)
       IN  /\ frames' = frames \cup {frame}
           /\ signerLog' = Append(signerLog,
                [call |-> frame.call, did |-> issuer,
                 message |-> frame.message, key |-> frame.signDidUrl])
    /\ calls' = Append(calls, CallRecord(issuer, isPublic, "pending"))
    /\ nSet' = nSet + 1
    /\ UNCHANGED <<builder, issued, hvars, pvars, vvars, wvars>>

\* the signer answers: build resumes after the await and returns
BuildReturn ==
  \E frame \in frames :
    LET signed == signWithKey(frame.issuer, frame.message, frame.signDidUrl)
        vc == AssembleVC(builder, frame, SignedProof(signed))
    IN  /\ frames' = frames \ {frame}
        /\ issued' = issued \cup {[call |-> frame.call, vc |-> vc]}
        /\ calls' = [calls EXCEPT ![frame.call].outcome = "returned",
                                  ![frame.call].post = builder]
        /\ UNCHANGED <<builder, signerLog, nSet, hvars, pvars, vvars, wvars>>

Next ==
  \/ SetContext
  \/ SetVersion
  \/ SetIssuanceDate
  \/ SetExpirationDate
  \/ SetRaw
  \/ SetDigestHashType
  \/ BuildThrow
  \/ BuildCall
  \/ BuildReturn

(***************************************************************************)
(* The commitment operation applied: issuance, re-derivation with the      *)
(* stored nonce map, and re-derivation of a tampered claim set             *)
(***************************************************************************)
Nonces == 1..MaxNonce

\* the nonce maps a caller may hold for a claim set: a nonce per leaf
NonceMapsOf(claims) == [DOMAIN claims -> Nonces]

HashCall(kind, input, type, arg) ==
  [kind |-> kind, input |-> input, type |-> type, arg |-> arg,
   result |-> calcRoothash(input, type, arg)]

HInit == hLog = <<>>

\* calcRoothash(contents, hashType): issuance, no nonce map supplied
HCommit ==
  \E c \in ClaimSets, t \in HashTypes :
    /\ hLog = <<>>
    /\ hLog' = <<HashCall("commit", c, t, <<>>)>>
    /\ UNCHANGED <<bvars, pvars, vvars, wvars>>

\* calcRoothash(contents, hashType, nonceMap) with a nonce map the caller
\* holds for these claims (a credential's stored credentialSubjectNonceMap)
HCommitWith ==
  \E c \in ClaimSets, t \in HashTypes :
    \E m \in NonceMapsOf(c) :
      /\ hLog = <<>>
      /\ hLog' = <<HashCall("commitWith", c, t, <<m>>)>>
      /\ UNCHANGED <<bvars, pvars, vvars, wvars>>

\* the nonce map a later call on the claims of hLog[1] is given: the one
\* supplied then, or else the one returned then
StoredNonceMap ==
  IF hLog[1].arg # <<>> THEN hLog[1].arg[1] ELSE hLog[1].result.nonceMap

\* the same claims again, with the stored nonce map
HRecompute ==
  /\ Len(hLog) = 1
  /\ hLog' = Append(hLog,
       HashCall("recompute", hLog[1].input, hLog[1].type, <<StoredNonceMap>>))
  /\ UNCHANGED <<bvars, pvars, vvars, wvars>>

\* one claim value flipped, the nonce map held fixed
HTamper ==
  \E k \in Keys, v \in Values :
    /\ Len(hLog) = 1
    /\ k \in DOMAIN hLog[1].input
    /\ v # hLog[1].input[k]
    /\ hLog' = Append(hLog,
         HashCall("tamper", [hLog[1].input EXCEPT ![k] = v], hLog[1].type,
                  <<StoredNonceMap>>))
    /\ UNCHANGED <<bvars, pvars, vvars, wvars>>

NextHash ==
  \/ HCommit
  \/ HCommitWith
  \/ HRecompute
  \/ HTamper

(***************************************************************************)
(* VerifiablePresentationBuilder                                           *)
(***************************************************************************)
DEFAULT_VP_VERSION == "0"
DEFAULT_VP_HASH_TYPE == "Keccak256"
VPTypes == {"VP", "VP_Digest", "VP_SelectiveDisclosure"}

\* a root hash as credentialSubject
RootSubject(rootHash) ==
  [kind |-> "rootHash", claims |-> EmptyMap, rootHash |-> rootHash]

\* the entries of map `m` whose key is among `fields`
Restrict(m, fields) == [k \in DOMAIN m \cap fields |-> m[k]]

\* RedactVC, but Selective keeps the nonces of the undisclosed fields
RedactVC_KeepsNonces(vc, vpType, fields) ==
  CASE vpType = "VP" -> vc
    [] vpType = "VP_Digest" ->
         [vc EXCEPT
            !.credentialSubject =
              RootSubject(calcRoothash(vc.credentialSubject.claims,
                                       vc.hasher[1],
                                       <<vc.credentialSubjectNonceMap>>).rootHash),
            !.credentialSubjectHashes = <<>>,
            !.credentialSubjectNonceMap = EmptyMap]
    [] vpType = "VP_SelectiveDisclosure" ->
         [vc EXCEPT
            !.credentialSubject =
              Subject(Restrict(vc.credentialSubject.claims, fields))]

\* RedactVC, but DigestOnly leaves the field-hash list in place
RedactVC_KeepsHashes(vc, vpType, fields) ==
  CASE vpType = "VP" -> vc
    [] vpType = "VP_Digest" ->
         [vc EXCEPT
            !.credentialSubject =
              RootSubject(calcRoothash(vc.credentialSubject.claims,
                                       vc.hasher[1],
                                       <<vc.credentialSubjectNonceMap>>).rootHash),
            !.credentialSubjectNonceMap = EmptyMap]
    [] vpType = "VP_SelectiveDisclosure" ->
         [vc EXCEPT
            !.credentialSubject =
              Subject(Restrict(vc.credentialSubject.claims, fields)),
            !.credentialSubjectNonceMap =
              Restrict(vc.credentialSubjectNonceMap, fields)]

\* RedactVC, but a redacted entry loses the issuer's proof
RedactVC_DropsProof(vc, vpType, fields) ==
  CASE vpType = "VP" -> vc
    [] vpType = "VP_Digest" ->
         [vc EXCEPT
            !.credentialSubject =
              RootSubject(calcRoothash(vc.credentialSubject.claims,
                                       vc.hasher[1],
                                       <<vc.credentialSubjectNonceMap>>).rootHash),
            !.credentialSubjectHashes = <<>>,
            !.credentialSubjectNonceMap = EmptyMap,
            !.proof = <<>>]
    [] vpType = "VP_SelectiveDisclosure" ->
         [vc EXCEPT
            !.credentialSubject =
              Subject(Restrict(vc.credentialSubject.claims, fields)),
            !.credentialSubjectNonceMap =
              Restrict(vc.credentialSubjectNonceMap, fields),
            !.proof = <<>>]

\* the credential as placed in the presentation under a disclosure mode
RedactVC(vc, vpType, fields) ==
  CASE vpType = "VP" -> vc
    [] vpType = "VP_Digest" ->
         [vc EXCEPT
            !.credentialSubject =
              RootSubject(calcRoothash(vc.credentialSubject.claims,
                                       vc.hasher[1],
                                       <<vc.credentialSubjectNonceMap>>).rootHash),
            !.credentialSubjectHashes = <<>>,
            !.credentialSubjectNonceMap = EmptyMap]
    [] vpType = "VP_SelectiveDisclosure" ->
         [vc EXCEPT
            !.credentialSubject =
              Subject(Restrict(vc.credentialSubject.claims, fields)),
            !.credentialSubjectNonceMap =
              Restrict(vc.credentialSubjectNonceMap, fields)]

\* hashDigests, but over the digests as a set, their order lost
hashDigests_Unordered(digests, hashType) ==
  [hash |-> [digests |-> {digests[i] : i \in DOMAIN digests}, type |-> hashType],
   type |-> hashType]

\* hashDigests(digests, hashType): the hash of the digests in sequence
hashDigests(digests, hashType) ==
  [hash |-> [digests |-> digests, type |-> hashType], type |-> hashType]

Holder == "did:zk:holder"

\* VerifiablePresentationBuilder.build: id, holder's proof, assembly
BuildVP(entries, vpTypes) ==
  LET id == hashDigests([i \in 1..Len(entries) |-> entries[i].digest],
                        DEFAULT_VP_HASH_TYPE).hash
      key == getKeyUrl(Holder, "authentication")
      signed == signWithKey(Holder, plainMessage(id), key)
  IN  [context |-> DEFAULT_CONTEXT,
       version |-> DEFAULT_VP_VERSION,
       type |-> vpTypes,
       verifiableCredential |-> entries,
       id |-> id,
       proof |-> [type |-> signed.type,
                  created |-> "Date.now()",
                  verificationMethod |-> signed.id,
                  proofPurpose |-> "authentication",
                  proofValue |-> base58Encode(signed.signature)],
       hasher |-> <<DEFAULT_VP_HASH_TYPE>>]

\* build run to its end with no call in between
BuildVC(b, issuer, isPublic) ==
  LET frame == BuildFrame(b, issuer, isPublic, 0)
      signed == signWithKey(issuer, frame.message, frame.signDidUrl)
  IN  AssembleVC(b, frame, SignedProof(signed))

\* credentials this builder issues: private ones, and a public one
PoolBuilt ==
  { BuildVC(setExpirationDate(
              fromRawCredential(
                [contents |-> [name |-> 1, age |-> p[1]], owner |-> Holder,
                 ctype |-> [id |-> "0xc1", fields |-> {"name", "age"}],
                 hashType |-> "Rescue"], 1, "Keccak256"), Null),
            "did:zk:issuer", p[2]) :
      p \in {q \in Values \X BOOLEAN : q[1] = 1 \/ ~q[2]} }

\* a field hash: the hash of (path, value, nonce)
FieldHash(key, value, nonce) == [key |-> key, value |-> value, nonce |-> nonce]

KeyOrder == <<"age", "name">>

\* A private credential received from another issuer's implementation: one
\* nonce and one field hash per leaf claim, the digest over their root
ExternalVC(claims, nonceMap) ==
  LET ks == SelectSeq(KeyOrder, LAMBDA k : k \in DOMAIN claims)
      hashes == [i \in 1..Len(ks) |->
                   FieldHash(ks[i], claims[ks[i]], nonceMap[ks[i]])]
      d == calcDigest("1",
             [rootHash |-> ToString(hashes), expirationDate |-> Undefined,
              holder |-> Holder, ctype |-> "0xc2", issuanceDate |-> 1],
             "Keccak256").digest
      key == getKeyUrl("did:zk:other", "assertionMethod")
      signed == signWithKey("did:zk:other", signedVCMessage(d, "1"), key)
  IN  [context |-> DEFAULT_CONTEXT, version |-> "1", ctype |-> "0xc2",
       issuanceDate |-> 1, credentialSubject |-> Subject(claims),
       issuer |-> "did:zk:other", holder |-> Holder,
       hasher |-> <<"Rescue", "Keccak256">>, digest |-> d,
       proof |-> <<SignedProof(signed)>>, private |-> TRUE,
       credentialSubjectHashes |-> hashes,
       credentialSubjectNonceMap |-> nonceMap,
       expirationDate |-> Undefined]

PoolExternal ==
  { ExternalVC(c, [k \in DOMAIN c |-> IF k = "age" THEN 1 ELSE MaxNonce]) :
      c \in {[name |-> 1, age |-> v] : v \in Values} \cup {[age |-> 1]} }

VCPool == PoolBuilt \cup PoolExternal

\* the field lists a caller may pass: claim keys and a name no claim has
FieldLists == (SUBSET Keys) \cup {{"other"}, {"age", "other"}}

PInit ==
  /\ vcs = <<>>
  /\ types = <<>>
  /\ addLog = <<>>
  /\ built = <<>>

\* addVC(vc, vpType, selectedAttributes?)
AddVC ==
  \E vc \in VCPool, vpType \in VPTypes, fields \in FieldLists :
    /\ Len(vcs) < MaxVCs
    /\ vpType # "VP_SelectiveDisclosure" => fields = {}
    /\ vc.private \/ vpType = "VP"
    /\ vcs' = Append(vcs, RedactVC(vc, vpType, fields))
    /\ types' = Append(types, vpType)
    /\ addLog' = Append(addLog, [vc |-> vc, vpType |-> vpType, fields |-> fields])
    /\ UNCHANGED <<built, bvars, hvars, vvars, wvars>>

\* build()
VPBuild ==
  /\ Len(vcs) >= 1
  /\ built' = <<[vp |-> BuildVP(vcs, types), calls |-> addLog]>>
  /\ UNCHANGED <<vcs, types, addLog, bvars, hvars, vvars, wvars>>

NextVP ==
  \/ AddVC
  \/ VPBuild

(***************************************************************************)
(* proofVerify                                                             *)
(***************************************************************************)
\* decodeMultibase(value): the bytes of a multibase string; a prefix that
\* names no encoding is an error
decodeMultibase(value) ==
  [ok |-> value.prefix = "z", bytes |-> value.digits]

\* keyTypeToSignatureType(type): the signature type of a key type; for any
\* other value the error it throws
keyTypeToSignatureType(type) ==
  CASE type = "EcdsaSecp256k1VerificationKey2019" ->
         [error |-> "", type |-> "EcdsaSecp256k1Signature2019"]
    [] type = "Ed25519VerificationKey2020" ->
         [error |-> "", type |-> "Ed25519Signature2018"]
    [] OTHER ->
         [error |-> "Can not transform type", type |-> ""]

SignatureTypes == {"EcdsaSecp256k1Signature2019", "Ed25519Signature2018"}

\* the identities whose documents exist, and one that has none
KnownDids == {"did:zk:issuer", "did:zk:other"}
KeyUrls ==
  {getKeyUrl(d, "assertionMethod") : d \in KnownDids \cup {"did:zk:nobody"}}

\* a verification method of a document: the key pair behind it and its type
Method(pair) == [pair |-> pair, type |-> "EcdsaSecp256k1VerificationKey2019"]

\* A resolver or DID document, as the verification methods it gives for a
\* key url: none (<<>>) or one.
\* the resolver that resolves every known identity to its own keys
CorrectResolver ==
  [k \in KeyUrls |-> IF k.did \in KnownDids THEN <<Method(k)>> ELSE <<>>]
\* a document that lists no key
EmptyDocument == [k \in KeyUrls |-> <<>>]
\* a document that lists, under the issuer's key url, another key
OtherKeyDocument ==
  [k \in KeyUrls |->
     IF k.did = "did:zk:issuer"
     THEN <<Method(getKeyUrl("did:zk:other", "assertionMethod"))>>
     ELSE <<>>]

\* the resolver didVerify uses when it is passed none
DefaultResolver == CorrectResolver

\* the signature primitive: `signature` was made over `message` with the
\* private key of the pair
PrimitiveVerify(message, signature, pair) ==
  signature.key = pair /\ signature.message = message

\* didVerify(message, signature, signatureType, didUrl, resolverOrDidDocument):
\* `resolver` is <<>> when the argument is not passed
didVerify(message, signature, signatureType, didUrl, resolver) ==
  LET r == IF resolver = <<>> THEN DefaultResolver ELSE resolver[1]
      found == r[didUrl]
  IN  IF found = <<>> THEN [threw |-> TRUE, value |-> FALSE]
      ELSE IF keyTypeToSignatureType(found[1].type).error # ""
           THEN [threw |-> TRUE, value |-> FALSE]
      ELSE [threw |-> FALSE,
            value |-> /\ keyTypeToSignatureType(found[1].type).type = signatureType
                      /\ PrimitiveVerify(message, signature, found[1].pair)]

\* proofVerify, but the resolver or document passed is dropped
proofVerify_DropsResolver(message, proof, resolverOrDidDocument) ==
  LET decoded == decodeMultibase(proof.proofValue)
  IN  IF ~decoded.ok THEN [threw |-> TRUE, value |-> FALSE]
      ELSE didVerify(message, decoded.bytes, proof.type,
                     proof.verificationMethod, <<>>)

\* proofVerify(message, proof, resolverOrDidDocument?)
proofVerify(message, proof, resolverOrDidDocument) ==
  LET decoded == decodeMultibase(proof.proofValue)
  IN  IF ~decoded.ok THEN [threw |-> TRUE, value |-> FALSE]
      ELSE IF resolverOrDidDocument = <<>>
           THEN didVerify(message, decoded.bytes, proof.type,
                          proof.verificationMethod, <<>>)
           ELSE didVerify(message, decoded.bytes, proof.type,
                          proof.verificationMethod, resolverOrDidDocument)

\* the messages a verifier is given: the digests of credentials, as signed
\* for each version
VMessages ==
  {SignedMessage(v, vc.digest) : v \in Versions, vc \in VCPool}

\* signatures by each key over each message
VSignatures == [key : KeyUrls, message : VMessages]

\* proof values: the encoding of a signature, and strings of a prefix that
\* names no encoding
VProofValues ==
  {base58Encode(g) : g \in VSignatures} \cup
  {[prefix |-> "?", digits |-> g] : g \in VSignatures}

VProofs ==
  [type : SignatureTypes, created : {"Date.now()"},
   verificationMethod : KeyUrls, proofPurpose : {"assertionMethod"},
   proofValue : VProofValues]

Resolvers == {CorrectResolver, EmptyDocument, OtherKeyDocument}

VInit == vLog = <<>>

VerifyCall(message, proof, resolver) ==
  [message |-> message, proof |-> proof, resolver |-> resolver,
   result |-> proofVerify(message, proof, resolver)]

\* proofVerify(message, proof)
VerifyDefault ==
  \E m \in VMessages, p \in VProofs :
    /\ vLog = <<>>
    /\ vLog' = <<VerifyCall(m, p, <<>>)>>
    /\ UNCHANGED <<bvars, hvars, pvars, wvars>>

\* proofVerify(message, proof, resolverOrDidDocument)
VerifyWith ==
  \E m \in VMessages, p \in VProofs, r \in Resolvers :
    /\ vLog = <<>>
    /\ vLog' = <<VerifyCall(m, p, <<r>>)>>
    /\ UNCHANGED <<bvars, hvars, pvars, wvars>>

NextVerify ==
  \/ VerifyDefault
  \/ VerifyWith

(***************************************************************************)
(* The wasm bridge: initWasm and the object heap                           *)
(***************************************************************************)
\* `new Array(32)`: the length of the heap as created
HEAP_INIT == 32
\* `if (idx < 36) return;` in dropObject
DROP_MIN == 36

\* What `wasm` or a cached view refers to: nothing yet, the asm bundle, or
\* the exports (the memory) of the instance initWasm call `id` instantiated
NoInstance == [kind |-> "undefined", id |-> 0]
asmBundle == [kind |-> "asm", id |-> 0]
WasmInstance(id) == [kind |-> "wasm", id |-> id]

\* `if (wasm)`
Bound(w) == w.kind # "undefined"

Views == {"cacheU8a", "cachedBigUint64", "cachedInt32"}

\* a slot of the heap: undefined, a number (a free-list link) or an object
UndefinedSlot == [kind |-> "undefined", v |-> 0]
NumberSlot(n) == [kind |-> "number", v |-> n]
ObjectSlot(o) == [kind |-> "object", v |-> o]

\* heap.length
HeapLength(h) == Cardinality(DOMAIN h)

WInit ==
  /\ wasm = NoInstance
  /\ initCalls = {}
  /\ views = [v \in Views |-> NoInstance]
  /\ bindings = <<>>
  /\ nInit = 0
  /\ heap = [i \in 0..(HEAP_INIT - 1) |-> UndefinedSlot]
  /\ heapNext = HEAP_INIT
  /\ heapLog = <<>>
  /\ live = {}

hpvars == <<heap, heapNext, heapLog, live>>
ivars == <<wasm, initCalls, views, bindings, nInit>>

\* initWasm(true): bind the asm bundle unless `wasm` is bound
InitWasmOnlyAsm ==
  /\ nInit < MaxInits
  /\ nInit' = nInit + 1
  /\ IF Bound(wasm)
     THEN UNCHANGED <<wasm, bindings>>
     ELSE /\ wasm' = asmBundle
          /\ bindings' = Append(bindings, asmBundle)
  /\ UNCHANGED <<initCalls, views, hpvars, bvars, hvars, pvars, vvars>>

\* initWasm(): return if `wasm` is bound. Else evaluate the operand of the
\* await inside the try: when that throws before the call suspends (no
\* WebAssembly on the platform), the catch binds the asm bundle before the
\* call returns; when it yields a promise, the call suspends at the await
InitWasmCall ==
  \E threw \in BOOLEAN :
    /\ nInit < MaxInits
    /\ nInit' = nInit + 1
    /\ IF Bound(wasm)
       THEN UNCHANGED <<wasm, initCalls, bindings>>
       ELSE IF threw
            THEN /\ wasm' = asmBundle
                 /\ bindings' = Append(bindings, asmBundle)
                 /\ UNCHANGED initCalls
            ELSE /\ initCalls' = initCalls \cup {nInit + 1}
                 /\ UNCHANGED <<wasm, bindings>>
    /\ UNCHANGED <<views, hpvars, bvars, hvars, pvars, vvars>>

\* WebAssembly.instantiate resolves: the call binds the instance's exports
InstantiateOk ==
  \E k \in initCalls :
    /\ initCalls' = initCalls \ {k}
    /\ wasm' = WasmInstance(k)
    /\ bindings' = Append(bindings, WasmInstance(k))
    /\ UNCHANGED <<views, nInit, hpvars, bvars, hvars, pvars, vvars>>

\* WebAssembly.instantiate rejects after the call suspended: the call
\* binds the asm bundle
InstantiateFail ==
  \E k \in initCalls :
    /\ initCalls' = initCalls \ {k}
    /\ wasm' = asmBundle
    /\ bindings' = Append(bindings, asmBundle)
    /\ UNCHANGED <<views, nInit, hpvars, bvars, hvars, pvars, vvars>>

\* `cache.byteLength === 0`: the view was never made, or the memory it was
\* made over has grown since and its buffer is detached
Empty(view) == view.kind = "undefined"

\* getUint8: an empty cacheU8a is made anew over the memory of the instance
\* bound now; one that is not empty is returned as it is
getUint8(vs, w) ==
  IF Empty(vs["cacheU8a"]) THEN [vs EXCEPT !["cacheU8a"] = w] ELSE vs

\* getUint64, for cachedBigUint64
getUint64(vs, w) ==
  IF Empty(vs["cachedBigUint64"]) THEN [vs EXCEPT !["cachedBigUint64"] = w]
  ELSE vs

\* getInt32, for cachedInt32
getInt32(vs, w) ==
  IF Empty(vs["cachedInt32"]) THEN [vs EXCEPT !["cachedInt32"] = w] ELSE vs

\* wasm.__wbindgen_malloc: when the allocation grows the memory of the
\* instance bound, every view made over that memory becomes empty
wbindgen_malloc(vs, w, grows) ==
  IF grows THEN [v \in Views |-> IF vs[v] = w THEN NoInstance ELSE vs[v]]
  ELSE vs

\* allocU8a(value) and allocString(value): malloc, then write through
\* getUint8
AllocU8a ==
  \E grows \in BOOLEAN :
    /\ Bound(wasm)
    /\ views' = getUint8(wbindgen_malloc(views, wasm, grows), wasm)
    /\ UNCHANGED <<wasm, initCalls, bindings, nInit, hpvars, bvars, hvars,
                   pvars, vvars>>

\* allocU64a(value): malloc, then write through getUint64
AllocU64a ==
  \E grows \in BOOLEAN :
    /\ Bound(wasm)
    /\ views' = getUint64(wbindgen_malloc(views, wasm, grows), wasm)
    /\ UNCHANGED <<wasm, initCalls, bindings, nInit, hpvars, bvars, hvars,
                   pvars, vvars>>

\* resultU8a(retptr) and resultString(retptr): read through getInt32, then
\* through getUint8
ResultU8a ==
  /\ Bound(wasm)
  /\ views' = getUint8(getInt32(views, wasm), wasm)
  /\ UNCHANGED <<wasm, initCalls, bindings, nInit, hpvars, bvars, hvars,
                 pvars, vvars>>

\* resultU64a(retptr): read through getInt32, then through getUint64
ResultU64a ==
  /\ Bound(wasm)
  /\ views' = getUint64(getInt32(views, wasm), wasm)
  /\ UNCHANGED <<wasm, initCalls, bindings, nInit, hpvars, bvars, hvars,
                 pvars, vvars>>

NextInitWasm ==
  \/ InitWasmOnlyAsm
  \/ InitWasmCall
  \/ InstantiateOk
  \/ InstantiateFail
  \/ AllocU8a
  \/ AllocU64a
  \/ ResultU8a
  \/ ResultU64a

\* getObject(idx)
getObject(h, idx) == h[idx]

\* the heap and heapNext after addHeapObject(obj), and the index returned
addHeapObject(h, next, obj) ==
  LET h1 == IF next = HeapLength(h)
            THEN [i \in 0..HeapLength(h) |->
                    IF i < HeapLength(h) THEN h[i]
                    ELSE NumberSlot(HeapLength(h) + 1)]
            ELSE h
      idx == next
  IN  [heap |-> [h1 EXCEPT ![idx] = ObjectSlot(obj)],
       heapNext |-> h1[idx].v,
       idx |-> idx]

\* the heap and heapNext after dropObject(idx)
dropObject(h, next, idx) ==
  IF idx < DROP_MIN THEN [heap |-> h, heapNext |-> next]
  ELSE [heap |-> [h EXCEPT ![idx] = NumberSlot(next)], heapNext |-> idx]

\* the heap and heapNext after takeObject(idx), and the object returned
takeObject(h, next, idx) ==
  LET ret == getObject(h, idx)
      d == dropObject(h, next, idx)
  IN  [heap |-> d.heap, heapNext |-> d.heapNext, ret |-> ret]

\* the indexes released and not handed out again, before the next call
FreeNow == IF heapLog = <<>> THEN {} ELSE heapLog[Len(heapLog)].freeAfter

\* addHeapObject(obj): each call is given an object of its own
AddHeapObject ==
  /\ Len(heapLog) < MaxHeapOps
  /\ LET r == addHeapObject(heap, heapNext, Len(heapLog) + 1)
     IN  /\ heap' = r.heap
         /\ heapNext' = r.heapNext
         /\ live' = live \cup {r.idx}
         /\ heapLog' = Append(heapLog,
              [op |-> "addHeapObject", idx |-> r.idx,
               grew |-> HeapLength(r.heap) > HeapLength(heap),
               freeAfter |-> FreeNow \ {r.idx}])
  /\ UNCHANGED <<ivars, bvars, hvars, pvars, vvars>>

\* dropObject(idx), of an index addHeapObject returned and no call released
DropObject ==
  \E idx \in live :
    /\ Len(heapLog) < MaxHeapOps
    /\ LET r == dropObject(heap, heapNext, idx)
       IN  /\ heap' = r.heap
           /\ heapNext' = r.heapNext
    /\ live' = live \ {idx}
    /\ heapLog' = Append(heapLog,
         [op |-> "dropObject", idx |-> idx, grew |-> FALSE,
          freeAfter |-> FreeNow \cup {idx}])
    /\ UNCHANGED <<ivars, bvars, hvars, pvars, vvars>>

\* takeObject(idx), of an index addHeapObject returned and no call released
TakeObject ==
  \E idx \in live :
    /\ Len(heapLog) < MaxHeapOps
    /\ LET r == takeObject(heap, heapNext, idx)
       IN  /\ heap' = r.heap
           /\ heapNext' = r.heapNext
    /\ live' = live \ {idx}
    /\ heapLog' = Append(heapLog,
         [op |-> "takeObject", idx |-> idx, grew |-> FALSE,
          freeAfter |-> FreeNow \cup {idx}])
    /\ UNCHANGED <<ivars, bvars, hvars, pvars, vvars>>

NextHeap ==
  \/ AddHeapObject
  \/ DropObject
  \/ TakeObject

(***************************************************************************)
(* Specifications                                                          *)
(***************************************************************************)
\* the credential builder, its setters and its build calls
Init == BInit /\ HInit /\ PInit /\ VInit /\ WInit
Spec == Init /\ [][Next]_vars

\* no builder in use: one constructed and left alone
BIdle ==
  /\ builder = NewBuilder(CHOOSE r \in Raws : isRawCredential(r))
  /\ frames = {}
  /\ calls = <<>>
  /\ issued = {}
  /\ signerLog = <<>>
  /\ nSet = 0

\* the commitment operation
InitHash == BIdle /\ HInit /\ PInit /\ VInit /\ WInit
SpecHash == InitHash /\ [][NextHash]_vars

\* proofVerify
InitVerify == BIdle /\ HInit /\ PInit /\ VInit /\ WInit
SpecVerify == InitVerify /\ [][NextVerify]_vars

\* initWasm and the cached views
InitInitWasm == BIdle /\ HInit /\ PInit /\ VInit /\ WInit
SpecInitWasm == InitInitWasm /\ [][NextInitWasm]_vars

\* the object heap
InitHeap == BIdle /\ HInit /\ PInit /\ VInit /\ WInit
SpecHeap == InitHeap /\ [][NextHeap]_vars

\* the presentation builder
InitVP == BIdle /\ HInit /\ PInit /\ VInit /\ WInit
SpecVP == InitVP /\ [][NextVP]_vars

(***************************************************************************)
(* Properties                                                              *)
(***************************************************************************)
\* the fields of a credential other than claim set, field hashes, nonce map
FrameFields ==
  {"context", "version", "ctype", "issuanceDate", "issuer", "holder",
   "hasher", "digest", "proof", "private", "expirationDate"}

\* C1: an entry added in Selective mode with field list F has as claim set
\* the original claims of the fields of F with their original values and no
\* other, as nonce map the original entries of those fields and no other,
\* and as field-hash list the original list.
C1_SelectiveDisclosure ==
  \A i \in 1..Len(addLog) :
    addLog[i].vpType = "VP_SelectiveDisclosure" =>
      LET orig == addLog[i].vc
          F == addLog[i].fields
          oc == orig.credentialSubject.claims
          ec == vcs[i].credentialSubject.claims
          on == orig.credentialSubjectNonceMap
          en == vcs[i].credentialSubjectNonceMap
      IN  /\ vcs[i].credentialSubject.kind = "claims"
          /\ DOMAIN ec = F \cap DOMAIN oc
          /\ F \subseteq DOMAIN oc => DOMAIN ec = F
          /\ \A k \in DOMAIN ec : ec[k] = oc[k]
          /\ DOMAIN en = F \cap DOMAIN on
          /\ \A k \in DOMAIN en : en[k] = on[k]
          /\ vcs[i].credentialSubjectHashes = orig.credentialSubjectHashes

\* a two-claim credential with two nonces and two field hashes was added
\* disclosing "age" alone
C1_Witness ==
  \E i \in 1..Len(addLog) :
    /\ addLog[i].vpType = "VP_SelectiveDisclosure"
    /\ addLog[i].fields = {"age"}
    /\ DOMAIN addLog[i].vc.credentialSubject.claims = {"name", "age"}
    /\ DOMAIN addLog[i].vc.credentialSubjectNonceMap = {"name", "age"}
    /\ Len(addLog[i].vc.credentialSubjectHashes) = 2
    /\ DOMAIN vcs[i].credentialSubjectNonceMap = {"age"}

\* C2: an entry added in DigestOnly mode has as claim set the root hash
\* calcRoothash gives for the original claims, root hash type and nonce
\* map, an empty field-hash list and an empty nonce map.
C2_DigestOnly ==
  \A i \in 1..Len(addLog) :
    addLog[i].vpType = "VP_Digest" =>
      LET orig == addLog[i].vc
      IN  /\ vcs[i].credentialSubject.kind = "rootHash"
          /\ vcs[i].credentialSubject.rootHash =
               calcRoothash(orig.credentialSubject.claims, orig.hasher[1],
                            <<orig.credentialSubjectNonceMap>>).rootHash
          /\ DOMAIN vcs[i].credentialSubject.claims = {}
          /\ vcs[i].credentialSubjectHashes = <<>>
          /\ vcs[i].credentialSubjectNonceMap = EmptyMap

\* a credential that had field hashes and nonces was added as a digest
C2_Witness ==
  \E i \in 1..Len(addLog) :
    /\ addLog[i].vpType = "VP_Digest"
    /\ Len(addLog[i].vc.credentialSubjectHashes) = 2
    /\ DOMAIN addLog[i].vc.credentialSubjectNonceMap = {"name", "age"}
    /\ vcs[i].credentialSubject.kind = "rootHash"

\* C3: in every mode the entry's digest, proof and every field other than
\* claim set, field-hash list and nonce map are those of the credential
\* added; in Full mode the entry is that credential.
C3_RedactionFrame ==
  \A i \in 1..Len(addLog) :
    /\ \A f \in FrameFields : vcs[i][f] = addLog[i].vc[f]
    /\ addLog[i].vpType = "VP" => vcs[i] = addLog[i].vc

\* one credential was added in Full mode and one redacted
C3_Witness ==
  /\ \E i \in 1..Len(addLog) :
       /\ addLog[i].vpType = "VP"
       /\ Len(addLog[i].vc.credentialSubjectHashes) > 0
  /\ \E i \in 1..Len(addLog) :
       /\ addLog[i].vpType # "VP"
       /\ vcs[i] # addLog[i].vc

\* the sequence `q` with its elements i and j exchanged
Swap(q, i, j) ==
  [n \in 1..Len(q) |-> IF n = i THEN q[j] ELSE IF n = j THEN q[i] ELSE q[n]]

\* C4: a built presentation holds, at each position, the credential and the
\* mode of the addVC call of that position; its id is the hash, of the
\* presentation hash type, of the credentials' digests in that order; and
\* with two credentials of different digests exchanged the id is another.
C4_InsertionOrder ==
  \A b \in 1..Len(built) :
    LET vp == built[b].vp
        log == built[b].calls
        digests == [i \in 1..Len(log) |-> log[i].vc.digest]
    IN  /\ Len(vp.verifiableCredential) = Len(log)
        /\ Len(vp.type) = Len(log)
        /\ \A i \in 1..Len(log) :
             /\ vp.verifiableCredential[i] =
                  RedactVC(log[i].vc, log[i].vpType, log[i].fields)
             /\ vp.verifiableCredential[i].digest = log[i].vc.digest
             /\ vp.type[i] = log[i].vpType
        /\ vp.id = hashDigests(digests, DEFAULT_VP_HASH_TYPE).hash
        /\ vp.hasher = <<DEFAULT_VP_HASH_TYPE>>
        /\ \A i, j \in 1..Len(log) :
             digests[i] # digests[j] =>
               hashDigests(Swap(digests, i, j), DEFAULT_VP_HASH_TYPE).hash # vp.id

\* a presentation was built of two credentials of different digests, added
\* in different modes
C4_Witness ==
  \E b \in 1..Len(built) :
    /\ Len(built[b].calls) = 2
    /\ built[b].calls[1].vc.digest # built[b].calls[2].vc.digest
    /\ built[b].calls[1].vpType # built[b].calls[2].vpType
    /\ Len(built[b].vp.verifiableCredential) = 2

\* C5: after one claim value is flipped with the nonce map held fixed, the
\* commitment operation gives other field hashes and another root hash.
C5_TamperChangesRoot ==
  (Len(hLog) = 2 /\ hLog[2].kind = "tamper") =>
    /\ hLog[2].result.hashes # hLog[1].result.hashes
    /\ hLog[2].result.rootHash # hLog[1].result.rootHash

\* C6: with no nonce map supplied the commitment operation returns a nonce
\* for each leaf claim; with one supplied it returns that nonce map, and a
\* recomputation with the stored nonce map repeats the field hashes and the
\* root hash.
C6_NonceMapReuse ==
  \A i \in 1..Len(hLog) :
    /\ hLog[i].arg = <<>> =>
         DOMAIN hLog[i].result.nonceMap = DOMAIN hLog[i].input
    /\ hLog[i].arg # <<>> => hLog[i].result.nonceMap = hLog[i].arg[1]
    /\ hLog[i].kind = "recompute" =>
         /\ hLog[i].result.hashes = hLog[1].result.hashes
         /\ hLog[i].result.rootHash = hLog[1].result.rootHash

\* C7: the field-hash list of a credential build returns with one has as
\* many entries as the claim set has leaf claims.
C7_HashListCardinality ==
  \A e \in issued :
    e.vc.private =>
      Len(e.vc.credentialSubjectHashes) =
        Cardinality(DOMAIN e.vc.credentialSubject.claims)

\* C8: in a credential build returns with a nonce map, the claims that have
\* a nonce-map entry are the claims disclosed in the claim set.
C8_NonceIffDisclosed ==
  \A e \in issued :
    e.vc.private =>
      DOMAIN e.vc.credentialSubjectNonceMap =
        DOMAIN e.vc.credentialSubject.claims

\* a build call was made with the claim set not matching the schema, or
\* with no holder id, schema id or issuance date
Incomplete(b) ==
  \/ ~checkSubject(b.raw)
  \/ ~TruthyStr(b.raw.owner)
  \/ ~TruthyStr(b.raw.ctype.id)
  \/ b.issuanceDate = Undefined

\* C9: a build call made with the claim set not matching the schema, or
\* with the holder id, schema id or issuance date missing, throws, calls no
\* signer and returns no credential.
C9_IncompleteBuildFails ==
  \A i \in 1..Len(calls) :
    Incomplete(calls[i].pre) =>
      /\ calls[i].outcome = "threw"
      /\ \A n \in 1..Len(signerLog) : signerLog[n].call # i
      /\ \A e \in issued : e.call # i

\* the credential's digest is the digest of its own root hash, holder,
\* ctype and dates, and its proof signs that digest for its version
SelfConsistent(vc) ==
  LET root == calcRoothash(vc.credentialSubject.claims, vc.hasher[1],
                           <<vc.credentialSubjectNonceMap>>).rootHash
      d == calcDigest(vc.version,
             [rootHash |-> root, expirationDate |-> vc.expirationDate,
              holder |-> vc.holder, ctype |-> vc.ctype,
              issuanceDate |-> vc.issuanceDate], vc.hasher[2]).digest
  IN  /\ vc.digest = d
      /\ vc.proof[1].proofValue =
           base58Encode([key |-> vc.proof[1].verificationMethod,
                         message |-> SignedMessage(vc.version, vc.digest)])

\* C10: every credential build returns is self-consistent, whatever calls
\* were made on the builder while the signer was pending.
C10_SelfConsistent == \A e \in issued : SelfConsistent(e.vc)

\* the commitment build computes for a call: calcRoothash of the claims and
\* root hash type the builder has at the call
CommitmentOf(c) ==
  calcRoothash(c.pre.raw.contents, c.pre.raw.hashType,
               IF c.isPublic THEN <<>> ELSE <<EmptyMap>>)

\* the fields the isPublic flag has no say in
SharedFields == (FrameFields \ {"private"}) \cup {"credentialSubject"}

\* C11: a credential built with isPublic carries no field-hash list and no
\* nonce map; one built without carries the field hashes and the nonce map
\* of the commitment its digest was computed from; and two credentials
\* built from the same builder, one with and one without isPublic, agree
\* on every other field.
C11_PublicPrivate ==
  /\ \A e \in issued :
       LET c == calls[e.call]
       IN  /\ e.vc.digest.rootHash = CommitmentOf(c).rootHash
           /\ c.isPublic =>
                /\ ~e.vc.private
                /\ e.vc.credentialSubjectHashes = <<>>
                /\ e.vc.credentialSubjectNonceMap = EmptyMap
           /\ ~c.isPublic =>
                /\ e.vc.private
                /\ e.vc.credentialSubjectHashes = CommitmentOf(c).hashes
                /\ e.vc.credentialSubjectNonceMap = CommitmentOf(c).nonceMap
  /\ \A e1, e2 \in issued :
       LET c1 == calls[e1.call]
           c2 == calls[e2.call]
       IN  (c1.isPublic /\ ~c2.isPublic /\ c1.pre = c2.pre /\ c1.post = c2.post)
             => \A f \in SharedFields : e1.vc[f] = e2.vc[f]

\* the same builder was built once with and once without isPublic, and both
\* calls returned
C11_Witness ==
  \E e1, e2 \in issued :
    /\ calls[e1.call].isPublic /\ ~calls[e2.call].isPublic
    /\ calls[e1.call].pre = calls[e2.call].pre
    /\ calls[e1.call].post = calls[e2.call].post
    /\ ~e1.vc.private /\ e2.vc.private
    /\ Cardinality(DOMAIN e2.vc.credentialSubject.claims) = 2

\* C13: proofVerify returns true exactly when the proof value decodes to a
\* signature that is valid on the message for the key the verification
\* method names in the resolver or document passed (the default resolver
\* when none is); it throws exactly when the proof value does not decode or
\* the key is not resolved, and otherwise returns false.
C13_ProofVerify ==
  \A i \in 1..Len(vLog) :
    LET c == vLog[i]
        r == IF c.resolver = <<>> THEN DefaultResolver ELSE c.resolver[1]
        wellFormed == c.proof.proofValue.prefix = "z"
        found == r[c.proof.verificationMethod]
        valid == /\ wellFormed
                 /\ found # <<>>
                 /\ keyTypeToSignatureType(found[1].type).type = c.proof.type
                 /\ PrimitiveVerify(c.message, c.proof.proofValue.digits,
                                    found[1].pair)
    IN  /\ c.result.value <=> valid
        /\ c.result.threw <=> (~wellFormed \/ found = <<>>)
        /\ c.result.threw => ~c.result.value

\* a proof the issuer's key made on the message was verified against a
\* document that lists another key under the issuer's key url: false, and
\* nothing thrown
C13_Witness ==
  \E i \in 1..Len(vLog) :
    LET c == vLog[i]
    IN  /\ c.resolver = <<OtherKeyDocument>>
        /\ c.proof.verificationMethod = getKeyUrl("did:zk:issuer", "assertionMethod")
        /\ c.proof.type = "EcdsaSecp256k1Signature2019"
        /\ c.proof.proofValue =
             base58Encode([key |-> c.proof.verificationMethod,
                           message |-> c.message])
        /\ c.result = [threw |-> FALSE, value |-> FALSE]

\* C14: for every credential build returns, proofVerify of its proof on the
\* message signed for its version, with a resolver that resolves the
\* issuer's keys, returns true.
C14_RoundTrip ==
  \A e \in issued :
    proofVerify(SignedMessage(e.vc.version, e.vc.digest), e.vc.proof[1],
                <<CorrectResolver>>) = [threw |-> FALSE, value |-> TRUE]

\* the signer calls made for build call i
SignerCallsOf(i) == {n \in 1..Len(signerLog) : signerLog[n].call = i}

\* C15: for a build call that returned, the issuer's signer was called
\* once, with the issuer's assertionMethod key and, when the version built
\* was '1', the version-tagged wrapper of the credential's digest, else the
\* digest itself; the credential has one proof, of purpose
\* 'assertionMethod', whose verificationMethod is the id the signer
\* returned.
C15_SignerOnce ==
  \A e \in issued :
    LET c == calls[e.call]
        key == [did |-> c.issuer, purpose |-> "assertionMethod"]
    IN  /\ c.outcome = "returned"
        /\ Cardinality(SignerCallsOf(e.call)) = 1
        /\ \A n \in SignerCallsOf(e.call) :
             /\ signerLog[n].did = c.issuer
             /\ signerLog[n].key = key
             /\ signerLog[n].message =
                  IF c.pre.version = "1"
                  THEN [tag |-> "CredentialVersionedDigest", version |-> "1",
                        digest |-> e.vc.digest]
                  ELSE [tag |-> "", version |-> "", digest |-> e.vc.digest]
             /\ Len(e.vc.proof) = 1
             /\ e.vc.proof[1].proofPurpose = "assertionMethod"
             /\ e.vc.proof[1].verificationMethod =
                  signWithKey(signerLog[n].did, signerLog[n].message,
                              signerLog[n].key).id
             /\ e.vc.issuer = c.issuer

\* a build of version '0' returned, its signer given the digest itself
C15_Witness ==
  \E e \in issued :
    /\ calls[e.call].pre.version = "0"
    /\ calls[e.call].outcome = "returned"
    /\ \E n \in SignerCallsOf(e.call) : signerLog[n].message.tag = ""

\* C16: a credential build returns has an expirationDate, and its digest
\* was computed with an expiration, exactly when the builder built had an
\* expiration timestamp set; and a build of a builder complete but for
\* setExpirationDate(null) does not throw.
C16_ExpirationIffSet ==
  /\ \A e \in issued :
       LET set == calls[e.call].pre.expirationDate \in Dates
       IN  /\ (e.vc.expirationDate # Undefined) <=> set
           /\ (e.vc.digest.expirationDate # Undefined) <=> set
  /\ \A i \in 1..Len(calls) :
       LET b == calls[i].pre
       IN  (/\ b.expirationDate = Null
            /\ checkSubject(b.raw)
            /\ TruthyStr(b.context) /\ TruthyStr(b.version)
            /\ TruthyNum(b.issuanceDate) /\ TruthyStr(b.digestHashType))
             => calls[i].outcome # "threw"

\* C17: the instance bound to `wasm` is never replaced by another, and a
\* cached view that has been made is over the memory of the instance bound.
C17_BoundOnce ==
  /\ \A i \in 1..Len(bindings) : bindings[i] = bindings[1]
  /\ \A v \in Views : ~Empty(views[v]) => views[v] = wasm

\* C18: an addHeapObject call made right after the release of an index, by
\* dropObject or takeObject, returns that index; and an addHeapObject call
\* grows the heap only when no released index is waiting to be handed out.
C18_ReleaseFreesSlot ==
  \A i \in 1..Len(heapLog) :
    /\ (/\ heapLog[i].op \in {"dropObject", "takeObject"}
        /\ i < Len(heapLog)
        /\ heapLog[i + 1].op = "addHeapObject")
         => heapLog[i + 1].idx = heapLog[i].idx
    /\ (heapLog[i].op = "addHeapObject" /\ heapLog[i].grew)
         => (i = 1 \/ heapLog[i - 1].freeAfter = {})

====
